---------------------------- MODULE Spec2Model ----------------------------
(***************************************************************************)
(* A model of tawhiri's wind dataset store (tawhiri/dataset.py): the grid  *)
(* layout kept in class attributes, Dataset creation/opening/closing, the  *)
(* directory scan, the single-slot "latest" cache with its SIGALRM expiry, *)
(* and of the sun-relative up/down motion model (tawhiri/models.py) with   *)
(* its process-wide descent marker.                                        *)
(*                                                                         *)
(* The specifications share the variables:                                 *)
(*   Spec       open_latest run statement by statement, with the alarm     *)
(*              handler able to run between any two statements;            *)
(*   SpecStore  setup, Dataset(new=True), Dataset(new=False), file writes; *)
(*   SpecClose  the Datasets of one file created, opened and closed;       *)
(*   SpecCreate Dataset(new=True) run statement by statement, with         *)
(*              readers of the same file;                                  *)
(*   SpecScan   listdir over directories of any names, with any filter;    *)
(*   SpecSched  two up_down models evaluated in any interleaving;          *)
(*   SpecSolo   one up_down model evaluated at non-decreasing times;       *)
(*   SpecSeq    up_down models built and evaluated one after the other;    *)
(*   SpecFlight a float_profile run stage by stage by the integrator.      *)
(***************************************************************************)
EXTENDS Integers, Sequences, FiniteSets, TLC

VARIABLES
    \* ---- class attributes of Dataset (dataset.py 61-113, 219)
    forecast_range,     \* Dataset.forecast_range
    shape,              \* Dataset.shape
    axes,               \* Dataset.axes
    size,               \* Dataset.size (a byte count, see Big)
    cached_latest,      \* Dataset.cached_latest: None or a Dataset (its id)
    \* ---- the process and its environment
    trueDivision,       \* "/" on ints: TRUE Python 3 (true division), FALSE Python 2 (floor)
    alarm,              \* seconds until SIGALRM is raised; 0: no alarm armed
    fs,                 \* the file system: path -> byte length, for the files that exist
    heap,               \* the Dataset objects built so far, by id
    \* ---- the frame of the running open_latest call (or Dataset.__init__)
    pc,                 \* the statement it is at ("idle": no call in progress)
    frame,              \* its arguments and locals
    \* ---- what the caller observed
    result,             \* outcome of the last finished call
    hist,               \* facts about earlier calls that the properties refer to
    \* ---- models.py
    descend_mark,       \* the module global
    traj,               \* the trajectories being evaluated
    solo                \* per trajectory: the marker it would have if evaluated alone

vars == <<forecast_range, shape, axes, size, cached_latest, trueDivision, alarm,
          fs, heap, pc, frame, result, hist, descend_mark, traj, solo>>

classVars == <<forecast_range, shape, axes, size>>
schedVars == <<descend_mark, traj, solo>>

\* Python's None, by the kind of value it stands in for (TLC compares
\* only values of one kind): an exception name, an object reference (ids count
\* from 1), a datetime, a byte count.
None == "None"
NoObj == 0
NoTime == <<>>
NoBytes == [hi |-> 0 - 1, lo |-> 0]

-----------------------------------------------------------------------------
(* Byte counts.  A 65-step dataset has 9 528 667 200 bytes, more than the  *)
(* integers of TLC hold, so a byte count is kept as two digits in  *)
(* base 10^6: [hi, lo] stands for hi * 10^6 + lo.                          *)

BigBase == 1000 * 1000

Big(n) == [hi |-> n \div BigBase, lo |-> n % BigBase]

BigZero == Big(0)

\* n * x for a small factor x (at most a few thousand)
BigMul(n, x) ==
    LET l == n.lo * x
    IN  [hi |-> (n.hi * x) + (l \div BigBase), lo |-> l % BigBase]

\* n // d (floor) for a small positive divisor d
BigDiv(n, d) ==
    [hi |-> n.hi \div d, lo |-> ((n.hi % d) * BigBase + n.lo) \div d]

BigLess(a, b) == a.hi < b.hi \/ (a.hi = b.hi /\ a.lo < b.lo)

\* a - b, for b <= a
BigSub(a, b) ==
    IF a.lo >= b.lo THEN [hi |-> a.hi - b.hi, lo |-> a.lo - b.lo]
                    ELSE [hi |-> a.hi - b.hi - 1, lo |-> a.lo + BigBase - b.lo]

\* a + x for a small x
BigAdd(a, x) ==
    LET l == a.lo + x
    IN  [hi |-> a.hi + (l \div BigBase), lo |-> l % BigBase]

\* the value of a byte count known to be small
BigSmall(n) == n.hi * BigBase + n.lo

RECURSIVE BigDivAll(_, _)
\* n // ds[1] // ds[2] // ...
BigDivAll(n, ds) ==
    IF ds = <<>> THEN n ELSE BigDivAll(BigDiv(n, Head(ds)), Tail(ds))

RECURSIVE BigMulAll(_, _)
\* n * xs[1] * xs[2] * ...
BigMulAll(n, xs) ==
    IF xs = <<>> THEN n ELSE BigMulAll(BigMul(n, Head(xs)), Tail(xs))

-----------------------------------------------------------------------------
(* Python built-ins used by the code.                                      *)

\* range(start, stop, step), step > 0.  An arithmetic progression is kept the
\* way Python keeps a range: by its start, step and length (its i-th value,
\* counting from 0, is start + i * step).
Range(start, stop, step) ==
    [start |-> start, step |-> step,
     len   |-> IF stop > start THEN (stop - start + step - 1) \div step ELSE 0]

\* len() of a range
RangeLen(r) == r.len

\* sorted(s, reverse=True) for a list of ints
SortedReverse(s) ==
    LET n == Len(s)
        pos(i) == 1 + Cardinality({j \in 1..n :
                        s[j] > s[i] \/ (s[j] = s[i] /\ j < i)})
    IN  [k \in 1..n |-> s[CHOOSE i \in 1..n : pos(i) = k]]


-----------------------------------------------------------------------------
(* The grid layout: dataset.py 61-165.                                     *)

element_size == 4

DefaultForecastHours == 192

pressures_pgrb2f ==
    <<10, 20, 30, 50, 70, 100, 150, 200, 250, 300, 350, 400,
      450, 500, 550, 600, 650, 700, 750, 800, 850, 900, 925,
      950, 975, 1000>>

pressures_pgrb2bf ==
    <<1, 2, 3, 5, 7, 125, 175, 225, 275, 325, 375, 425,
      475, 525, 575, 625, 675, 725, 775, 825, 875>>

\* [x/2.0 for x in range(a, b)]: the range and the divisor of each value
HalfDegrees(a, b) == [of |-> Range(a, b, 1), over |-> 2]

PressureAxis == SortedReverse(pressures_pgrb2f \o pressures_pgrb2bf)

VariableAxis == <<"height", "wind_u", "wind_v">>

LatitudeAxis == HalfDegrees(-180, 180 + 1)

LongitudeAxis == HalfDegrees(0, 720)

\* _axes_type(forecast_range, sorted(...), [...], [x/2.0 ...], [x/2.0 ...])
MakeAxes(fr) ==
    [hour      |-> fr,
     pressure  |-> PressureAxis,
     variable  |-> VariableAxis,
     latitude  |-> LatitudeAxis,
     longitude |-> LongitudeAxis]

\* tuple(len(x) for x in axes)
AxesLens(ax) ==
    <<RangeLen(ax.hour), Len(ax.pressure), Len(ax.variable),
      RangeLen(ax.latitude.of), RangeLen(ax.longitude.of)>>

\* size = element_size; for _x in shape: size *= _x
SizeLoop(sh) == BigMulAll(Big(element_size), sh)

\* The class body: the attributes as the class statement leaves them.
ClassBody ==
    LET fr == Range(0, DefaultForecastHours + 3, 3)
        ax == MakeAxes(fr)
        sh == <<RangeLen(fr), 47, 3, 361, 720>>
    IN  [forecast_range |-> fr, shape |-> sh, axes |-> ax, size |-> SizeLoop(sh)]

\* Dataset.forecast_hours()
forecast_hours(sh) == (sh[1] - 1) * 3

\* setup with the hour range stopping at forecastHours instead of
\* forecastHours + 3 (the last hour step is lost)
setup_ShortRange(forecastHours) ==
    LET fr == Range(0, forecastHours, 3)
        sh == <<RangeLen(fr), 47, 3, 361, 720>>
        ax == MakeAxes(fr)
    IN  [raised |-> FALSE, forecast_range |-> fr, shape |-> sh,
         axes |-> ax, size |-> SizeLoop(sh)]

\* Dataset.setup(forecastHours), forecastHours already passed through int():
\* the attributes it assigns, or raised = TRUE (the assert) and nothing assigned.
setup(forecastHours) ==
    LET fr == Range(0, forecastHours + 3, 3)
        sh == <<RangeLen(fr), 47, 3, 361, 720>>
        ax == MakeAxes(fr)
    IN  IF sh # AxesLens(ax)
        THEN [raised |-> TRUE, forecast_range |-> forecast_range, shape |-> shape,
              axes |-> axes, size |-> size]
        ELSE [raised |-> FALSE, forecast_range |-> fr, shape |-> sh,
              axes |-> ax, size |-> SizeLoop(sh)]

-----------------------------------------------------------------------------
(* File names: dataset.py 167-217.  A name is a sequence of characters, a  *)
(* path is <<directory, name>>, a forecast time is <<year, month, day,     *)
(* hour>> (datetimes compare in that order).                               *)

StampLen == 10

DigitChars == <<"0", "1", "2", "3", "4", "5", "6", "7", "8", "9">>

IsDigit(c) == \E i \in 1..10 : DigitChars[i] = c

DigitVal(c) == (CHOOSE i \in 1..10 : DigitChars[i] = c) - 1

Pad2(n) == <<DigitChars[((n \div 10) % 10) + 1], DigitChars[(n % 10) + 1]>>

\* ds_time.strftime("%Y%m%d%H")
strftime(t) == Pad2(t[1] \div 100) \o Pad2((t[1] % 100)) \o Pad2(t[2]) \o Pad2(t[3]) \o Pad2(t[4])

DaysInMonth(y, m) ==
    IF m = 2
    THEN (IF ((y % 4) = 0 /\ (y % 100) # 0) \/ (y % 400) = 0 THEN 29 ELSE 28)
    ELSE IF m \in {4, 6, 9, 11} THEN 30 ELSE 31

\* datetime.strptime(s, "%Y%m%d%H") for a 10-character s: the time, or None
\* (NoTime) for ValueError.  Ten characters leave two for each of month, day and hour;
\* the two-character forms strptime takes are 01-12, 01-31 or a blank and
\* 1-9, and 00-23.
strptime(s) ==
    IF Len(s) # StampLen THEN NoTime
    ELSE IF ~(\A i \in {1, 2, 3, 4, 5, 6, 8, 9, 10} : IsDigit(s[i])) THEN NoTime
    ELSE IF ~(IsDigit(s[7]) \/ s[7] = " ") THEN NoTime
    ELSE
      LET y == 1000 * DigitVal(s[1]) + 100 * DigitVal(s[2])
                 + 10 * DigitVal(s[3]) + DigitVal(s[4])
          m == 10 * DigitVal(s[5]) + DigitVal(s[6])
          d == (IF s[7] = " " THEN 0 ELSE 10 * DigitVal(s[7])) + DigitVal(s[8])
          h == 10 * DigitVal(s[9]) + DigitVal(s[10])
      IN  IF /\ y >= 1
             /\ m \in 1..12
             /\ d \in 1..DaysInMonth(y, m)
             /\ h \in 0..23
          THEN <<y, m, d, h>>
          ELSE NoTime

TimeLess(a, b) ==
    \E i \in 1..4 : a[i] < b[i] /\ \A j \in 1..(i - 1) : a[j] = b[j]

\* Dataset.filename(ds_time, directory, suffix)
filename(ds_time, directory, suffix) == <<directory, strftime(ds_time) \o suffix>>

\* os.listdir(directory)
os_listdir(directory) == {p[2] : p \in {q \in DOMAIN fs : q[1] = directory}}

\* Dataset.listdir(directory, only_suffices): the records the generator
\* yields.  only_suffices is [given |-> FALSE] for None, else the collection
\* as the set members; an empty collection is false in "if only_suffices and".
listdir(directory, only_suffices) ==
    LET keep(fname) ==
            /\ Len(fname) >= StampLen
            /\ strptime(SubSeq(fname, 1, StampLen)) # NoTime
            /\ ~(/\ only_suffices.given
                 /\ only_suffices.members # {}
                 /\ SubSeq(fname, StampLen + 1, Len(fname)) \notin only_suffices.members)
    IN  {[ds_time  |-> strptime(SubSeq(fname, 1, StampLen)),
          suffix   |-> SubSeq(fname, StampLen + 1, Len(fname)),
          filename |-> fname,
          path     |-> <<directory, fname>>] : fname \in {f \in os_listdir(directory) : keep(f)}}

\* the scan sorted without reverse=True: the oldest entry comes first
LatestOf_Oldest(datasets) ==
    (CHOOSE r \in datasets : \A o \in datasets : ~TimeLess(o.ds_time, r.ds_time)).ds_time

\* sorted(datasets, reverse=True)[0].ds_time, for a non-empty scan
LatestOf(datasets) ==
    (CHOOSE r \in datasets : \A o \in datasets : ~TimeLess(r.ds_time, o.ds_time)).ds_time

-----------------------------------------------------------------------------
(* Dataset objects: dataset.py 266-337.  An object is a record of its      *)
(* attributes; array.present tells whether the attribute array is there    *)
(* (hasattr(self, 'array')), and then length and prot are the mapping's.   *)

NoArray == [present |-> FALSE, length |-> NoBytes, prot |-> "-"]

\* mmap.mmap(f.fileno(), 0, prot=prot, flags=MAP_SHARED): the whole file
Mapping(length, prot) == [present |-> TRUE, length |-> length, prot |-> prot]

\* the derivation without the "- 1": int(time * 3)
DerivedHours_NoMinusOne(sz, sh, truediv) ==
    LET ds == <<element_size, sh[2], sh[3], sh[4], sh[5]>>
    IN  IF ~truediv
        THEN BigSmall(BigDivAll(sz, ds)) * 3
        ELSE BigSmall(BigDivAll(BigMul(sz, 3), ds))

\* int((time - 1) * 3) with time = sz / element_size / shape[1] / ... / shape[4]
\* (dataset.py 311-312; Python indexes from 0, sequences here from 1).
\* Floor division divides step by step.  True division is taken exactly:
\* (time - 1) * 3 is 3 * (sz - d) / d for d the product of the divisors, and
\* int() truncates toward zero.  (Float rounding can move the result by one
\* only where 3 * sz / d is within rounding of a whole number that sz does
\* not hit exactly; none of the lengths used below is such a length.)
DerivedHours(sz, sh, truediv) ==
    LET ds == <<element_size, sh[2], sh[3], sh[4], sh[5]>>
        d  == element_size * sh[2] * sh[3] * sh[4] * sh[5]
    IN  IF ~truediv
        THEN (BigSmall(BigDivAll(sz, ds)) - 1) * 3
        ELSE IF BigLess(sz, Big(d))
             THEN 0 - ((3 * (d - BigSmall(sz))) \div d)
             ELSE BigSmall(BigDivAll(BigMul(BigSub(sz, Big(d)), 3), ds))

\* the size check rejecting only files that are too short
SizeMismatch_OnlyShorter(sz, expected) == BigLess(sz, expected)

\* if sz != self.size: raise ValueError(...)
SizeMismatch(sz, expected) == sz # expected

\* Dataset(ds_time, directory, new, determineTime) run in the state at hand:
\* what it raises (None: nothing), the file system and class attributes it
\* leaves, and the object built.
DatasetInit(ds_time, directory, new, determineTime) ==
    LET fn   == filename(ds_time, directory, <<>>)
        same == [forecast_range |-> forecast_range, shape |-> shape,
                 axes |-> axes, size |-> size]
        obj(arr) == [ds_time |-> ds_time, directory |-> directory, new |-> new,
                     fn |-> fn, array |-> arr]
        out(r, f, c, arr, e, a) ==
            [raised |-> r, fs |-> f, cls |-> c, obj |-> obj(arr),
             expected |-> e, actual |-> a]
        \* open(fn, "w+b") creates or truncates the file
        trunc == [q \in DOMAIN fs \cup {fn} |-> IF q = fn THEN BigZero ELSE fs[q]]
        \* f.seek(size - 1); f.write(b"\0") leaves size bytes
        grown == [trunc EXCEPT ![fn] = size]
    IN  IF new
        THEN IF size = BigZero
             THEN out("OSError", trunc, same, NoArray, NoBytes, NoBytes)  \* seek(-1)
             ELSE out(None, grown, same, Mapping(grown[fn], "rw"), NoBytes, NoBytes)
        ELSE IF fn \notin DOMAIN fs
        THEN out("IOError", fs, same, NoArray, NoBytes, NoBytes)
        ELSE
          LET sz  == fs[fn]
              st  == IF determineTime
                     THEN setup(DerivedHours(sz, shape, trueDivision))
                     ELSE [raised |-> FALSE] @@ same
              cls == [forecast_range |-> st.forecast_range, shape |-> st.shape,
                      axes |-> st.axes, size |-> st.size]
          IN  IF st.raised
              THEN out("AssertionError", fs, cls, NoArray, NoBytes, NoBytes)
              ELSE IF SizeMismatch(sz, cls.size)
              THEN out("ValueError", fs, cls, NoArray, cls.size, sz)
              ELSE IF sz = BigZero
              THEN out("EmptyMmap", fs, cls, NoArray, NoBytes, NoBytes)  \* mmap of an empty file
              ELSE out(None, fs, cls, Mapping(sz, "r"), NoBytes, NoBytes)

\* close() without the hasattr test: del of an attribute that is not there
close_NoHasattr(obj) ==
    IF obj.array.present
    THEN [raised |-> None, obj |-> [obj EXCEPT !.array = NoArray]]
    ELSE [raised |-> "AttributeError", obj |-> obj]

\* Dataset.close(): if hasattr(self, 'array'): del self.array
close(obj) ==
    IF obj.array.present
    THEN [raised |-> None, obj |-> [obj EXCEPT !.array = NoArray]]
    ELSE [raised |-> None, obj |-> obj]

-----------------------------------------------------------------------------
(* Inputs and bounds.                                                      *)

MaxObjects == 2         \* Dataset objects built in one run
MaxHorizon == 3         \* largest horizon passed to setup, besides the default

Dirs == {"A", "B"}

T3118 == <<2014, 1, 31, 18>>
T0100 == <<2014, 2, 1, 0>>
T0103 == <<2014, 2, 1, 3>>

\* bytes in one hour step of the grid: element_size * 47 * 3 * 361 * 720
HourStepBytes == element_size * ClassBody.shape[2] * ClassBody.shape[3]
                    * ClassBody.shape[4] * ClassBody.shape[5]

Steps(k) == BigMul(Big(HourStepBytes), k)

\* valid horizons: multiples of 3, >= 0
HorizonInputs == {h \in 0..MaxHorizon : h % 3 = 0} \cup {DefaultForecastHours}

\* lengths of files written by other programs
EnvSizes == {BigZero, Big(HourStepBytes - 1), BigAdd(Steps(1), 1), Steps(2)}

StorePaths == {filename(t, "A", <<>>) : t \in {T0100, T0103}}

NoFrame == [directory |-> None, persistent |-> FALSE, determineTime |-> FALSE,
            latest |-> NoTime, cached |-> NoObj, valid |-> FALSE, ds |-> NoObj]

\* op: the operation; raised: the exception (None: it returned); expected,
\* actual: the byte counts a sizing error carries; obj: the Dataset returned;
\* path, determineTime, hours: arguments; before: shape[0] when it started;
\* for close, actual is the length of the mapping the Dataset had (NoBytes: none)
NoResult == [op |-> "none", raised |-> None, expected |-> NoBytes, actual |-> NoBytes,
             obj |-> NoObj, path |-> <<>>, determineTime |-> FALSE,
             hours |-> 0 - 1, before |-> 0 - 1]

\* hist.created[path]: whether this program created the file, nothing has
\* written it since, and the layout in force when it did
NotCreated == [made |-> FALSE, layout |-> ClassBody]

Layout == [forecast_range |-> forecast_range, shape |-> shape,
           axes |-> axes, size |-> size]

-----------------------------------------------------------------------------
(* SpecStore: setup, create, open, and files changed from outside.         *)

InitCommon ==
    /\ forecast_range = ClassBody.forecast_range
    /\ shape = ClassBody.shape
    /\ axes = ClassBody.axes
    /\ size = ClassBody.size
    /\ cached_latest = NoObj
    /\ alarm = 0
    /\ heap = <<>>
    /\ pc = "idle"
    /\ frame = NoFrame
    /\ result = NoResult

InitSchedIdle ==
    /\ descend_mark = -1
    /\ traj = <<>>
    /\ solo = <<>>

InitStore ==
    /\ InitCommon
    /\ trueDivision \in BOOLEAN
    /\ InitSchedIdle
    /\ fs = [q \in {} |-> BigZero]
    /\ hist = [created |-> [q \in StorePaths |-> NotCreated]]

\* Dataset.setup(h) called by the program
StoreSetup(h) ==
    LET st == setup(h)
    IN  /\ forecast_range' = st.forecast_range
        /\ shape' = st.shape
        /\ axes' = st.axes
        /\ size' = st.size
        /\ result' = [NoResult EXCEPT !.op = "setup", !.hours = h,
                        !.before = shape[1],
                        !.raised = IF st.raised THEN "AssertionError" ELSE None]
        /\ UNCHANGED <<cached_latest, trueDivision, alarm, fs, heap, pc, frame,
                       hist, schedVars>>

\* Dataset(t, d, new, determineTime) called directly
StoreNewDataset(t, d, new, det) ==
    LET out == DatasetInit(t, d, new, det)
        fn  == out.obj.fn
    IN  /\ Len(heap) < MaxObjects
        /\ forecast_range' = out.cls.forecast_range
        /\ shape' = out.cls.shape
        /\ axes' = out.cls.axes
        /\ size' = out.cls.size
        /\ fs' = out.fs
        /\ heap' = IF out.raised = None THEN Append(heap, out.obj) ELSE heap
        /\ result' = [op |-> IF new THEN "create" ELSE "open",
                      raised |-> out.raised, expected |-> out.expected,
                      actual |-> out.actual,
                      obj |-> IF out.raised = None THEN Len(heap) + 1 ELSE NoObj,
                      path |-> fn, determineTime |-> det, hours |-> 0 - 1,
                      before |-> shape[1]]
        /\ hist' = IF new
                   THEN [hist EXCEPT !.created[fn] =
                            IF out.raised = None
                            THEN [made |-> TRUE, layout |-> Layout]
                            ELSE NotCreated]
                   ELSE hist
        /\ UNCHANGED <<cached_latest, trueDivision, alarm, pc, frame, schedVars>>

\* the program creates the dataset of T0100; the one of T0103 is downloaded
\* by another program
StoreCreate == StoreNewDataset(T0100, "A", TRUE, TRUE)

StoreOpen == \E t \in {T0100, T0103}, det \in BOOLEAN : StoreNewDataset(t, "A", FALSE, det)

\* another program writes the file at path q with sz bytes
StoreEnvWrite(q, sz) ==
    /\ fs' = [r \in DOMAIN fs \cup {q} |-> IF r = q THEN sz ELSE fs[r]]
    /\ hist' = [hist EXCEPT !.created[q] = NotCreated]
    /\ result' = [NoResult EXCEPT !.op = "env"]
    /\ UNCHANGED <<classVars, cached_latest, trueDivision, alarm, heap, pc, frame,
                   schedVars>>

\* a holder of Dataset i calls i.close()
StoreClose(i) ==
    /\ heap' = [heap EXCEPT ![i] = close(heap[i]).obj]
    /\ result' = [NoResult EXCEPT !.op = "close", !.obj = i,
                                  !.raised = close(heap[i]).raised,
                                  !.actual = heap[i].array.length]
    /\ UNCHANGED <<classVars, cached_latest, trueDivision, alarm, fs, pc, frame,
                   hist, schedVars>>

NextStore ==
    \/ \E h \in HorizonInputs : StoreSetup(h)
    \/ StoreCreate
    \/ StoreOpen
    \/ \E sz \in EnvSizes : StoreEnvWrite(filename(T0103, "A", <<>>), sz)

SpecStore == InitStore /\ [][NextStore]_vars

\* SpecClose: the life of the Datasets of one file: created, opened again
\* (with and without determineTime), closed any number of times, while
\* another program may replace the file by a shorter forecast
NextClose ==
    \/ StoreCreate
    \/ \E det \in BOOLEAN : StoreNewDataset(T0100, "A", FALSE, det)
    \/ \E i \in 1..Len(heap) : StoreClose(i)
    \/ StoreEnvWrite(filename(T0100, "A", <<>>), Steps(2))

SpecClose == InitStore /\ [][NextClose]_vars

-----------------------------------------------------------------------------
(* SpecCreate: Dataset(ds_time, directory, new=True) one statement at a    *)
(* time (dataset.py 301-319), so that the file is seen as it is while the  *)
(* create is in progress.  heap holds the Datasets of the file: the ones   *)
(* of this process and the ones a reading process opened meanwhile.        *)

\* the locals of __init__ while it runs: self.ds_time and self.directory
InitFrame(t, d) == [NoFrame EXCEPT !.directory = d, !.latest = t]

\* self.fn of the __init__ that is running
InitFn == filename(frame.latest, frame.directory, <<>>)

\* line 301 with mode "w+b": the file is created, or truncated to nothing
CreateL301(t, d) ==
    LET fn == filename(t, d, <<>>)
    IN  /\ pc = "idle"
        /\ Len(heap) < MaxObjects
        /\ fs' = [q \in DOMAIN fs \cup {fn} |-> IF q = fn THEN BigZero ELSE fs[q]]
        /\ pc' = "init303"
        /\ frame' = InitFrame(t, d)
        /\ result' = [NoResult EXCEPT !.op = "create", !.path = fn,
                                      !.before = shape[1]]
        /\ UNCHANGED <<classVars, cached_latest, trueDivision, alarm, heap, hist,
                       schedVars>>

\* lines 303-304: f.seek(self.size - 1) raises for a size of 0; the byte
\* written stays in the file object's buffer
CreateL303 ==
    /\ pc = "init303"
    /\ IF size = BigZero
       THEN /\ pc' = "idle"
            /\ frame' = NoFrame
            /\ result' = [result EXCEPT !.raised = "OSError"]
       ELSE /\ pc' = "init317"
            /\ UNCHANGED <<frame, result>>
    /\ UNCHANGED <<classVars, cached_latest, trueDivision, alarm, fs, heap, hist,
                   schedVars>>

\* line 317: f.seek(0, 0) writes the buffer out, the file has size bytes
CreateL317 ==
    /\ pc = "init317"
    /\ fs' = [fs EXCEPT ![InitFn] = size]
    /\ pc' = "init319"
    /\ UNCHANGED <<classVars, cached_latest, trueDivision, alarm, heap, frame,
                   result, hist, schedVars>>

\* line 319: self.array = mmap.mmap(f.fileno(), 0, ...), the whole file
CreateL319 ==
    /\ pc = "init319"
    /\ heap' = Append(heap, [ds_time |-> frame.latest, directory |-> frame.directory,
                             new |-> TRUE, fn |-> InitFn,
                             array |-> Mapping(fs[InitFn], "rw")])
    /\ pc' = "idle"
    /\ frame' = NoFrame
    /\ result' = [result EXCEPT !.obj = Len(heap) + 1]
    /\ UNCHANGED <<classVars, cached_latest, trueDivision, alarm, fs, hist,
                   schedVars>>

\* Dataset(t, d, new=False, determineTime) in a process of its own, whose
\* class attributes are the class body's: the mapping it gets, NoArray when
\* it raises
PeerInit(t, d, determineTime) ==
    LET sz == fs[filename(t, d, <<>>)]
        st == IF determineTime
              THEN setup(DerivedHours(sz, ClassBody.shape, trueDivision))
              ELSE [raised |-> FALSE, size |-> ClassBody.size]
    IN  IF st.raised \/ SizeMismatch(sz, st.size) \/ sz = BigZero
        THEN NoArray
        ELSE Mapping(sz, "r")

\* a reading process opens the file, at any moment of a create
PeerOpen(t, d, determineTime) ==
    /\ filename(t, d, <<>>) \in DOMAIN fs
    /\ Len(heap) < MaxObjects
    /\ PeerInit(t, d, determineTime).present
    /\ heap' = Append(heap, [ds_time |-> t, directory |-> d, new |-> FALSE,
                             fn |-> filename(t, d, <<>>),
                             array |-> PeerInit(t, d, determineTime)])
    /\ UNCHANGED <<classVars, cached_latest, trueDivision, alarm, fs, pc, frame,
                   result, hist, schedVars>>

\* a reading process finds the file unfit and gets no Dataset
PeerOpenFails(t, d, determineTime) ==
    /\ filename(t, d, <<>>) \in DOMAIN fs
    /\ ~PeerInit(t, d, determineTime).present
    /\ result' = [result EXCEPT !.actual = fs[filename(t, d, <<>>)]]
    /\ UNCHANGED <<classVars, cached_latest, trueDivision, alarm, fs, heap, pc,
                   frame, hist, schedVars>>

NextCreate ==
    \/ CreateL301(T0100, "A")
    \/ CreateL303
    \/ CreateL317
    \/ CreateL319
    \/ \E h \in HorizonInputs : pc = "idle" /\ StoreSetup(h)
    \/ \E det \in BOOLEAN : pc = "idle" /\ StoreNewDataset(T0100, "A", FALSE, det)
    \/ \E i \in 1..Len(heap) : pc = "idle" /\ StoreClose(i)
    \/ \E det \in BOOLEAN : PeerOpen(T0100, "A", det)
    \/ \E det \in BOOLEAN : PeerOpenFails(T0100, "A", det)

SpecCreate == InitStore /\ [][NextCreate]_vars

-----------------------------------------------------------------------------
(* Spec: open_latest (dataset.py 227-264) one statement at a time, the     *)
(* SIGALRM handler prune_latest (219-225, 340), close, and directories     *)
(* changing between calls.                                                 *)
(*                                                                         *)
(* Time: alarm counts the seconds left on the armed alarm.  A call takes   *)
(* no measurable time: seconds pass (Tick, TickSecs at a time) only        *)
(* between calls, and the signal of an alarm with at most TickSecs left    *)
(* arrives at any later point, also in the middle of a call; the handler   *)
(* then runs at once, between two statements.                              *)

AlarmSecs == 60

TickSecs == 30

T0106 == <<2014, 2, 1, 6>>

SUFFIX_GRIBMIRROR == <<".", "g", "r", "i", "b", "m", "i", "r", "r", "o", "r">>

\* files that are in the directories throughout: a dataset, a grib mirror
\* newer than any dataset, a name too short for a time stamp, a name that is
\* no time stamp
StaticFiles ==
    {[path |-> filename(T0100, "A", <<>>), bytes |-> ClassBody.size],
     [path |-> filename(T3118, "A", <<>>), bytes |-> ClassBody.size],
     [path |-> filename(T0106, "A", SUFFIX_GRIBMIRROR), bytes |-> Big(1)],
     [path |-> filename(T0106, "B", SUFFIX_GRIBMIRROR), bytes |-> Big(1)],
     [path |-> <<"A", <<"l", "a", "t", "e", "s", "t">>>>, bytes |-> Big(1)],
     [path |-> <<"B", <<"2", "0", "1", "4", "-", "0", "2", "-", "0", "1", "x">>>>,
      bytes |-> Big(1)]}

\* dataset files that other programs put into and take out of the directories
DatasetFiles ==
    {[path |-> filename(T0103, "A", <<>>), bytes |-> ClassBody.size],
     [path |-> filename(T0103, "B", <<>>), bytes |-> Steps(1)]}

\* open_latest scanning without a filter: only_suffices=None
OnlyEmptySuffix_Unfiltered == [given |-> FALSE, members |-> {}]

\* the only_suffices=('', ) of open_latest
OnlyEmptySuffix == [given |-> TRUE, members |-> {<<>>}]

\* hist under Spec.
\*   last:          set when a persistent call returns a Dataset: the directory
\*                  asked for and the Dataset; cleared by the next call's return,
\*                  by an expiry and by a directory change
\*   prev:          last, when the current call began (cleared by an expiry)
\*   expired:       the Datasets that an expiry has removed from the cache
\*   expiredAtCall: expired, when the current call began
\*   afterExpiry:   when the current call began the cache was empty and an
\*                  expiry had emptied it
\* The fields about the current call are cleared when the caller moves on.
NoCall == [directory |-> None, obj |-> NoObj]

InitHist ==
    [last |-> NoCall, prev |-> NoCall, expired |-> {}, expiredAtCall |-> {},
     afterExpiry |-> FALSE]

\* the caller moves on from the call that returned
MoveOn(h) == [h EXCEPT !.prev = NoCall, !.expiredAtCall = {}, !.afterExpiry = FALSE]

\* The two divisions differ only on lengths that are not whole hour steps;
\* the directories here hold none, so one of them is run (SpecStore runs both).
Init ==
    /\ InitCommon
    /\ trueDivision = TRUE
    /\ InitSchedIdle
    /\ fs = [q \in {f.path : f \in StaticFiles} |->
                (CHOOSE f \in StaticFiles : f.path = q).bytes]
    /\ hist = InitHist

Between == pc \in {"idle", "done"}

\* the call returns or raises: what the caller sees
Finish(raised, obj) ==
    /\ pc' = "done"
    /\ result' = [NoResult EXCEPT !.op = "latest", !.raised = raised, !.obj = obj,
                     !.determineTime = frame.determineTime]
    /\ hist' = [hist EXCEPT
                 !.last = IF frame.persistent /\ raised = None /\ obj # NoObj
                          THEN [directory |-> frame.directory, obj |-> obj]
                          ELSE NoCall]

\* another program puts a dataset file into a directory
EnvAdd(f) ==
    /\ Between
    /\ f.path \notin DOMAIN fs
    /\ fs' = [q \in DOMAIN fs \cup {f.path} |-> IF q = f.path THEN f.bytes ELSE fs[q]]
    /\ pc' = "idle"
    /\ hist' = [MoveOn(hist) EXCEPT !.last = NoCall]
    /\ frame' = NoFrame
    /\ result' = NoResult
    /\ UNCHANGED <<classVars, cached_latest, trueDivision, alarm, heap, schedVars>>

\* another program removes a dataset file
EnvRemove(f) ==
    /\ Between
    /\ f.path \in DOMAIN fs
    /\ fs' = [q \in DOMAIN fs \ {f.path} |-> fs[q]]
    /\ pc' = "idle"
    /\ hist' = [MoveOn(hist) EXCEPT !.last = NoCall]
    /\ frame' = NoFrame
    /\ result' = NoResult
    /\ UNCHANGED <<classVars, cached_latest, trueDivision, alarm, heap, schedVars>>

\* TickSecs seconds pass between calls without the alarm running out
Tick ==
    /\ Between
    /\ alarm > TickSecs
    /\ alarm' = alarm - TickSecs
    /\ pc' = "idle"
    /\ hist' = MoveOn(hist)
    /\ frame' = NoFrame
    /\ result' = NoResult
    /\ UNCHANGED <<classVars, cached_latest, trueDivision, fs, heap, schedVars>>

\* prune_latest with the body cls.cached_latest = None replaced by one that
\* also closes the cached Dataset
prune_latest_Closing ==
    [cached_latest |-> NoObj,
     heap |-> IF cached_latest = NoObj THEN heap
              ELSE [heap EXCEPT ![cached_latest] = close(heap[cached_latest]).obj]]

\* Dataset.prune_latest(signum, stack_frame): what it leaves
prune_latest == [cached_latest |-> NoObj, heap |-> heap]

\* the alarm runs out: SIGALRM, handled by prune_latest; the alarm is spent
Expire ==
    /\ alarm > 0
    /\ alarm <= TickSecs
    /\ alarm' = 0
    /\ cached_latest' = prune_latest.cached_latest
    /\ heap' = prune_latest.heap
    /\ hist' = [hist EXCEPT !.last = NoCall, !.prev = NoCall,
                            !.expired = IF cached_latest = NoObj THEN @
                                        ELSE @ \cup {cached_latest}]
    /\ UNCHANGED <<classVars, trueDivision, fs, pc, frame, result, schedVars>>

\* a holder of Dataset i calls i.close()
Close(i) ==
    /\ Between
    /\ heap' = [heap EXCEPT ![i] = close(heap[i]).obj]
    /\ pc' = "idle"
    /\ hist' = MoveOn(hist)
    /\ frame' = NoFrame
    /\ result' = NoResult
    /\ UNCHANGED <<classVars, cached_latest, trueDivision, alarm, fs, schedVars>>

\* open_latest(directory, persistent, determineTime), lines 241-242
Call(directory, persistent, determineTime) ==
    LET datasets == listdir(directory, OnlyEmptySuffix)
        fr == [NoFrame EXCEPT !.directory = directory, !.persistent = persistent,
                              !.determineTime = determineTime]
        h  == [hist EXCEPT
                 !.prev = hist.last,
                 !.expiredAtCall = hist.expired,
                 !.afterExpiry = (cached_latest = NoObj /\ hist.expired # {})]
    IN  /\ Between
        /\ Len(heap) < MaxObjects
        /\ IF datasets = {}
           THEN \* sorted(...)[0] raises IndexError
                /\ frame' = fr
                /\ pc' = "done"
                /\ result' = [NoResult EXCEPT !.op = "latest", !.raised = "IndexError",
                                 !.determineTime = determineTime]
                /\ hist' = [h EXCEPT !.last = NoCall]
           ELSE /\ frame' = [fr EXCEPT !.latest = LatestOf(datasets)]
                /\ pc' = "L244"
                /\ hist' = h
                /\ UNCHANGED result
        /\ UNCHANGED <<classVars, cached_latest, trueDivision, alarm, fs, heap,
                       schedVars>>

\* the validity test without the directory comparison
Valid_IgnoresDirectory(cached, latest, directory) ==
    /\ cached # NoObj
    /\ heap[cached].ds_time = latest

\* valid = cached and cached.ds_time == latest and cached.directory == directory
Valid(cached, latest, directory) ==
    /\ cached # NoObj
    /\ heap[cached].ds_time = latest
    /\ heap[cached].directory = directory

\* lines 244-249: cached = cls.cached_latest; valid = ...; if valid:
L244 ==
    /\ pc = "L244"
    /\ frame' = [frame EXCEPT !.cached = cached_latest,
                   !.valid = Valid(cached_latest, frame.latest, frame.directory)]
    /\ pc' = IF Valid(cached_latest, frame.latest, frame.directory)
             THEN (IF frame.persistent THEN "L252" ELSE "L254")
             ELSE "L256"
    /\ UNCHANGED <<classVars, cached_latest, trueDivision, alarm, fs, heap,
                   result, hist, schedVars>>

\* line 252: signal.alarm(60)
L252 ==
    /\ pc = "L252"
    /\ alarm' = AlarmSecs
    /\ pc' = "L254"
    /\ UNCHANGED <<classVars, cached_latest, trueDivision, fs, heap, frame,
                   result, hist, schedVars>>

\* line 254: return cls.cached_latest
L254 ==
    /\ pc = "L254"
    /\ Finish(None, cached_latest)
    /\ UNCHANGED <<classVars, cached_latest, trueDivision, alarm, fs, heap, frame,
                   schedVars>>

\* line 256: ds = Dataset(latest, directory=directory, determineTime=determineTime)
L256 ==
    LET out == DatasetInit(frame.latest, frame.directory, FALSE, frame.determineTime)
    IN  /\ pc = "L256"
        /\ forecast_range' = out.cls.forecast_range
        /\ shape' = out.cls.shape
        /\ axes' = out.cls.axes
        /\ size' = out.cls.size
        /\ fs' = out.fs
        /\ IF out.raised # None
           THEN /\ Finish(out.raised, NoObj)
                /\ UNCHANGED <<heap, frame>>
           ELSE /\ heap' = Append(heap, out.obj)
                /\ frame' = [frame EXCEPT !.ds = Len(heap) + 1]
                /\ pc' = IF frame.persistent THEN "L260" ELSE "L264"
                /\ UNCHANGED <<result, hist>>
        /\ UNCHANGED <<cached_latest, trueDivision, alarm, schedVars>>

\* line 260: signal.alarm(60)
L260 ==
    /\ pc = "L260"
    /\ alarm' = AlarmSecs
    /\ pc' = "L262"
    /\ UNCHANGED <<classVars, cached_latest, trueDivision, fs, heap, frame,
                   result, hist, schedVars>>

\* line 262 without the assignment: the Dataset is not installed
L262_NoInstall ==
    /\ pc = "L262"
    /\ pc' = "L264"
    /\ UNCHANGED <<classVars, cached_latest, trueDivision, alarm, fs, heap, frame,
                   result, hist, schedVars>>

\* line 262: cls.cached_latest = ds
L262 ==
    /\ pc = "L262"
    /\ cached_latest' = frame.ds
    /\ pc' = "L264"
    /\ UNCHANGED <<classVars, trueDivision, alarm, fs, heap, frame, result, hist,
                   schedVars>>

\* line 264: return ds
L264 ==
    /\ pc = "L264"
    /\ Finish(None, frame.ds)
    /\ UNCHANGED <<classVars, cached_latest, trueDivision, alarm, fs, heap, frame,
                   schedVars>>

Next ==
    \/ \E d \in Dirs, persistent \in BOOLEAN, determineTime \in BOOLEAN :
          Call(d, persistent, determineTime)
    \/ L244
    \/ L252
    \/ L254
    \/ L256
    \/ L260
    \/ L262
    \/ L264
    \/ Expire
    \/ Tick
    \/ \E i \in 1..Len(heap) : Close(i)
    \/ \E f \in DatasetFiles : EnvAdd(f)
    \/ \E f \in DatasetFiles : EnvRemove(f)

Spec == Init /\ [][Next]_vars

-----------------------------------------------------------------------------
(* Properties of open_latest and the cache (checked under Spec).           *)

\* the forecast times of the entries of a directory that have an empty suffix
EmptySuffixTimes(directory) ==
    {strptime(g) : g \in {f \in os_listdir(directory) :
                            Len(f) = StampLen /\ strptime(f) # NoTime}}

IsMaxTime(t, directory) ==
    /\ t \in EmptySuffixTimes(directory)
    /\ \A u \in EmptySuffixTimes(directory) : ~TimeLess(t, u)

\* the call has returned (a Dataset or None) and the caller has not moved on
Returned == pc = "done" /\ result.op = "latest" /\ result.raised = None

\* at line 244 the call found a cached entry that differs from the selected
\* (latest, directory) in forecast time or in directory
FoundMismatch ==
    /\ frame.cached # NoObj
    /\ \/ heap[frame.cached].ds_time # frame.latest
       \/ heap[frame.cached].directory # frame.directory

\* C2 (as claimed): whenever open_latest returns - the directory then holds an
\* empty-suffix dataset - it returns a Dataset, never None, whose forecast time
\* is the directory maximum, wherever in the call the expiry fired.
C2_ReturnsDatasetDespiteExpiry ==
    Returned =>
        /\ result.obj # NoObj
        /\ IsMaxTime(heap[result.obj].ds_time, frame.directory)

\* C3: every Dataset that latest(directory) returns has the maximum forecast
\* time among the empty-suffix entries of the directory as it is at the return,
\* and the directory asked for; one that was not built by this call is the cache
\* entry read at line 244, read with both fields matching.
C3_ReturnsLatestOfDirectory ==
    (Returned /\ result.obj # NoObj) =>
        /\ IsMaxTime(heap[result.obj].ds_time, frame.directory)
        /\ heap[result.obj].directory = frame.directory
        /\ result.obj # frame.ds =>
              /\ result.obj = frame.cached
              /\ heap[frame.cached].ds_time = frame.latest
              /\ heap[frame.cached].directory = frame.directory

\* a cache hit in a directory that holds two datasets and a newer grib mirror
C3_Witness ==
    /\ Returned
    /\ result.obj # NoObj
    /\ frame.ds = NoObj
    /\ frame.directory = "A"
    /\ heap[result.obj].ds_time = T0103
    /\ filename(T0100, "A", <<>>) \in DOMAIN fs
    /\ filename(T3118, "A", <<>>) \in DOMAIN fs
    /\ filename(T0106, "A", SUFFIX_GRIBMIRROR) \in DOMAIN fs

\* C4: a persistent call that follows a persistent call for the same directory
\* which returned Dataset p, with no expiry and no directory change in between,
\* returns p itself; a persistent call that begins with the cache emptied by an
\* expiry and returns, returns a Dataset built by this call (none of the
\* expired ones), which is then the cache entry, with the alarm at 60.
C4_CacheHitThenExpiry ==
    /\ (pc = "done" /\ frame.persistent /\ hist.prev.obj # NoObj
            /\ hist.prev.directory = frame.directory) =>
          /\ result.raised = None
          /\ result.obj = hist.prev.obj
    /\ (Returned /\ frame.persistent /\ hist.afterExpiry) =>
          /\ result.obj # NoObj
          /\ result.obj \notin hist.expiredAtCall
          /\ result.obj = frame.ds
          /\ frame.ds = Len(heap)
          /\ cached_latest = result.obj
          /\ alarm = AlarmSecs

\* Dataset 1 was returned twice in succession, then expired, and the next
\* persistent call returned Dataset 2
C4_Witness ==
    /\ Returned
    /\ frame.persistent
    /\ hist.afterExpiry
    /\ hist.expiredAtCall = {1}
    /\ result.obj = 2
    /\ heap[1].directory = frame.directory
    /\ heap[1].ds_time = heap[2].ds_time

\* C5: the cache holds at most one Dataset; and a persistent call that found a
\* mismatching entry and returns, returns a Dataset built by this call, which
\* is then the cache entry in place of the one found, with the alarm at 60.
C5_SingleSlotReplacement ==
    /\ cached_latest \in 0..Len(heap)
    /\ (Returned /\ frame.persistent /\ FoundMismatch) =>
          /\ result.obj = frame.ds
          /\ frame.ds = Len(heap)
          /\ frame.ds # frame.cached
          /\ cached_latest = frame.ds
          /\ cached_latest # frame.cached
          /\ alarm = AlarmSecs

\* the entry of directory "A" replaced by a call for directory "B" with the
\* same forecast time
C5_Witness ==
    /\ Returned
    /\ frame.persistent
    /\ FoundMismatch
    /\ heap[frame.cached].directory = "A"
    /\ frame.directory = "B"
    /\ heap[frame.cached].ds_time = frame.latest
    /\ cached_latest = 2

\* C6: the step that empties the cache changes no Dataset (the one that was
\* cached keeps its mapping), no file and no layout, and leaves no alarm; and
\* a Dataset that an expiry removed before a call began is never what the call
\* returns: a call that begins with the cache emptied by an expiry and returns,
\* returns a Dataset it built.
C6_ExpiryClearsOnlyTheSlot ==
    /\ [][(cached_latest # NoObj /\ cached_latest' = NoObj) =>
            /\ heap' = heap
            /\ fs' = fs
            /\ alarm' = 0
            /\ UNCHANGED classVars]_vars
    /\ []((Returned /\ result.obj # NoObj) => result.obj \notin hist.expiredAtCall)
    /\ []((Returned /\ hist.afterExpiry) =>
            (result.obj # NoObj /\ result.obj = frame.ds))

\* after the expiry of Dataset 1, still mapped, a call returned Dataset 2
C6_Witness ==
    /\ Returned
    /\ hist.afterExpiry
    /\ 1 \in hist.expiredAtCall
    /\ heap[1].array.present
    /\ cached_latest = NoObj
    /\ result.obj = 2

\* C12: a call for a directory with no empty-suffix dataset raises IndexError
\* (a LookupError) and returns no Dataset; the step that raises it leaves the
\* cache entry, the alarm, the Datasets and the files as they were.
C12_EmptyScanRaisesLookupError ==
    /\ []((pc = "done" /\ result.op = "latest"
              /\ EmptySuffixTimes(frame.directory) = {}) =>
            (result.raised = "IndexError" /\ result.obj = NoObj))
    /\ []((pc = "done" /\ result.raised = "IndexError") =>
            EmptySuffixTimes(frame.directory) = {})
    /\ [][(pc' = "done" /\ result'.raised = "IndexError"
              /\ ~(pc = "done" /\ result' = result)) =>
            /\ cached_latest' = cached_latest
            /\ alarm' = alarm
            /\ heap' = heap
            /\ fs' = fs]_vars

\* the call for "B", which holds only a grib mirror and an unparseable name,
\* failed while the cache holds the Dataset of "A" with its alarm running
C12_Witness ==
    /\ pc = "done"
    /\ result.raised = "IndexError"
    /\ frame.directory = "B"
    /\ filename(T0106, "B", SUFFIX_GRIBMIRROR) \in DOMAIN fs
    /\ cached_latest # NoObj
    /\ heap[cached_latest].directory = "A"
    /\ alarm > 0

\* C16 (as claimed): between calls, while the cache holds an entry an alarm
\* is armed with at most 60 seconds to run, and while the cache is empty no
\* alarm is armed.
C16_EntryIffAlarm ==
    Between =>
        /\ cached_latest # NoObj => alarm \in 1..AlarmSecs
        /\ cached_latest = NoObj => alarm = 0

\* C17 (as claimed): no statement of a call with persistent=False changes the
\* cache entry or the alarm; and the call, when it returns, returns on a hit
\* the cached Dataset it found and on a miss a Dataset it built, which is not
\* the cache entry.
C17_NonPersistentLeavesCache ==
    /\ [][(pc' # pc /\ pc' # "idle" /\ ~frame'.persistent) =>
            (cached_latest' = cached_latest /\ alarm' = alarm)]_vars
    /\ [][(pc \in {"L254", "L264"} /\ pc' = "done" /\ ~frame.persistent) =>
            /\ result'.raised = None
            /\ result'.obj # NoObj
            /\ result'.obj = IF frame.valid THEN frame.cached ELSE frame.ds
            /\ ~frame.valid => cached_latest' # frame.ds]_vars

-----------------------------------------------------------------------------
(* Properties of the store (checked under SpecStore).                      *)

LastObj == heap[result.obj]

\* 4 * product(shape), multiplied in another order than SizeLoop does
FourTimesProduct(sh) == BigMul(Big((((element_size * sh[5]) * sh[4]) * sh[3]) * sh[2]), sh[1])

\* C7 (as claimed): in every reachable state every Dataset instance that holds
\* a mapping reports a layout (the class attributes size and shape it reads)
\* whose total_bytes is the byte length of its own mapping; opening another
\* dataset never changes what an open one reports.
C7_LayoutMatchesOwnMapping ==
    \A i \in 1..Len(heap) :
        heap[i].array.present =>
            /\ heap[i].array.length = size
            /\ heap[i].array.length = FourTimesProduct(shape)

\* C8: an open of an existing file returns only if the file length equals size
\* as it stands after the optional re-derivation, and then maps exactly that
\* many bytes; on a mismatch it raises the sizing error carrying (expected,
\* actual) and returns no Dataset; with determineTime it returns only for a
\* length of shape[0] >= 1 whole hour steps.
C8_OpenRequiresExactSize ==
    (result.op = "open" /\ result.path \in DOMAIN fs) =>
        /\ result.raised = None =>
              /\ fs[result.path] = size
              /\ result.obj = Len(heap)
              /\ LastObj.array = Mapping(fs[result.path], "r")
              /\ result.determineTime =>
                    (shape[1] >= 1 /\ fs[result.path] = Steps(shape[1]))
        /\ fs[result.path] # size =>
              /\ result.raised = "ValueError"
              /\ result.expected = size
              /\ result.actual = fs[result.path]
              /\ result.obj = NoObj
        /\ (result.determineTime /\ ~(\E k \in 1..(shape[1] + 1) : fs[result.path] = Steps(k))) =>
              result.raised # None

\* an open with determineTime refused for a length that is not whole hour steps
C8_Witness ==
    /\ result.op = "open"
    /\ result.determineTime
    /\ result.raised = "ValueError"
    /\ result.actual = BigAdd(Steps(1), 1)
    /\ result.expected = Steps(1)

\* C9: a file this program created under layout L and that nothing has written
\* since reopens without re-derivation, when L is still the layout, with
\* success and a mapping of L.size bytes; with re-derivation it reopens with
\* success whatever the layout was before, and the layout is L again:
\* shape[0] = h/3 + 1 and forecast_hours() = h for L's horizon h (65 steps for
\* h = 192).
C9_CreateReopenRoundTrip ==
    (result.op = "open" /\ hist.created[result.path].made) =>
        LET L == hist.created[result.path].layout
            h == forecast_hours(L.shape)
        IN  /\ (h % 3) = 0 /\ h >= 0
            /\ (~result.determineTime /\ Layout = L) =>
                  /\ result.raised = None
                  /\ LastObj.array.length = L.size
            /\ result.determineTime =>
                  /\ result.raised = None
                  /\ Layout = L
                  /\ shape[1] = (h \div 3) + 1
                  /\ forecast_hours(shape) = h
                  /\ LastObj.array.length = size
                  /\ (h = 192 => shape = <<65, 47, 3, 361, 720>>)

\* a created two-step file reopened with re-derivation while another layout
\* was in force
C9_Witness ==
    /\ result.op = "open"
    /\ result.determineTime
    /\ hist.created[result.path].made
    /\ result.before # shape[1]
    /\ shape[1] = 2
    /\ result.raised = None

\* C10: after setup(h), h a multiple of 3 and >= 0, nothing was raised,
\* shape[0] = h/3 + 1, forecast_hours() = h; and in every state
\* len(axes[i]) = shape[i] for each axis and size = 4 * product(shape).
C10_LayoutInvariant ==
    /\ AxesLens(axes) = shape
    /\ axes.hour = forecast_range
    /\ size = FourTimesProduct(shape)
    /\ result.op = "setup" =>
          /\ result.raised = None
          /\ shape[1] = (result.hours \div 3) + 1
          /\ forecast_hours(shape) = result.hours

\* setup(3) run while the layout had another number of hour steps
C10_Witness ==
    /\ result.op = "setup"
    /\ result.hours = 3
    /\ result.before # 2
    /\ shape = <<2, 47, 3, 361, 720>>

-----------------------------------------------------------------------------
(* SpecSched: the sun-relative up/down model of models.py (82-156).  Two   *)
(* models are built by make_ascent_descent, one per trajectory; each       *)
(* evaluation up_down(t, lat, lng, alt) runs to its return, and the        *)
(* evaluations of the two trajectories interleave in any order.  The       *)
(* marker descend_mark is the module global of line 40.  Times are whole   *)
(* seconds of one UTC day, 0..MaxTime; the sunrise and sunset of a place   *)
(* come from the suntime library, modelled by the table SunTable.          *)

MaxTime == 5

\* Sun(lat, lng) on dt.date(): the positions and dates an evaluation can be
\* at.  "mid": the sun rises before it sets within the UTC day; "east": the
\* sunset falls earlier in the UTC day than the sunrise; "polar":
\* both get_sunrise_time and get_sunset_time raise SunTimeException; "noRise":
\* only get_sunrise_time raises; "noSet": only get_sunset_time raises.
Places == {"mid", "east", "polar", "noRise", "noSet"}

SunTable ==
    [mid   |-> [riseRaises |-> FALSE, setRaises |-> FALSE, sunrise |-> 1, sunset |-> 4],
     east  |-> [riseRaises |-> FALSE, setRaises |-> FALSE, sunrise |-> 4, sunset |-> 2],
     polar |-> [riseRaises |-> TRUE,  setRaises |-> TRUE,  sunrise |-> 0, sunset |-> 0],
     noRise |-> [riseRaises |-> TRUE, setRaises |-> FALSE, sunrise |-> 0, sunset |-> 4],
     noSet |-> [riseRaises |-> FALSE, setRaises |-> TRUE,  sunrise |-> 3, sunset |-> 0]]

\* the vectors (0.0, 0.0, dz) an evaluation returns, by their third component
Hold == 0
Ascend(p) == p.ascent_rate
Descend(p) == 0 - p.descent_rate

\* make_ascent_descent(ascent_rate, float_alt, descent_rate,
\*                     descent_before_sunset, descent_duration): the closure
make_ascent_descent(ascent_rate, float_alt, descent_rate, descent_before_sunset, descent_duration) ==
    [ascent_rate |-> ascent_rate, float_alt |-> float_alt,
     descent_rate |-> descent_rate,
     descent_before_sunset |-> descent_before_sunset,
     descent_duration |-> descent_duration]

\* the models the program builds: with the default descent_duration (-1, no
\* limit) and with a descent of at most one second
BuiltModels ==
    {make_ascent_descent(1, 1, 1, 1, d) : d \in {0 - 1, 1}}

Altitudes == {0, 1}

\* lines 129-134 without the tests descent_t > 0
should_descend_NoPositiveTest(t, descent_t, sunrise_t) ==
    IF descent_t < sunrise_t
    THEN t > descent_t /\ t < sunrise_t
    ELSE t > descent_t \/ t < sunrise_t

\* lines 129-134
should_descend(t, descent_t, sunrise_t) ==
    IF descent_t < sunrise_t
    THEN descent_t > 0 /\ (t > descent_t /\ t < sunrise_t)
    ELSE descent_t > 0 /\ (t > descent_t \/ t < sunrise_t)

\* lines 112-119: descent_t, 0 when get_sunset_time raises
DescentT(p, place) ==
    IF SunTable[place].setRaises THEN 0
    ELSE SunTable[place].sunset - p.descent_before_sunset

\* lines 137-138 with the test of the marker left out: marked at every call
Marked_EveryCall(mark, t) == t

\* lines 137-138: if descend_mark < 0: descend_mark = t
Marked(mark, t) == IF mark < 0 THEN t ELSE mark

\* line 140 without the test descent_duration >= 0
DescentOver_NoSignTest(p, marked, t) == t > marked + p.descent_duration

\* line 140: descent_duration >= 0 and t > (descend_mark + descent_duration)
DescentOver(p, marked, t) ==
    p.descent_duration >= 0 /\ t > marked + p.descent_duration

\* up_down(t, lat, lng, alt) of the closure p, run with the marker at mark:
\* the vector returned and the marker left behind
up_down(p, mark, t, place, alt) ==
    LET sun       == SunTable[place]
        sunrise_t == sun.sunrise
        descent_t == DescentT(p, place)
        marked    == Marked(mark, t)
    IN  IF sun.riseRaises
        THEN [out |-> Hold, mark |-> mark]
        ELSE IF should_descend(t, descent_t, sunrise_t)
        THEN IF DescentOver(p, marked, t)
             THEN [out |-> Hold, mark |-> marked]
             ELSE [out |-> Descend(p), mark |-> marked]
        ELSE IF alt < p.float_alt
        THEN [out |-> Ascend(p), mark |-> 0 - 1]
        ELSE [out |-> Hold, mark |-> 0 - 1]

\* a trajectory before its first evaluation
NewTrajectory(p) == [model |-> p, t |-> 0, out |-> Hold]

\* solo[i] is what trajectory i would have if it were evaluated alone: its own
\* marker, starting at -1.0, and the vector of its latest evaluation
NewSolo == [mark |-> 0 - 1, out |-> Hold]

InitSched ==
    /\ InitCommon
    /\ trueDivision = TRUE
    /\ fs = [q \in {} |-> BigZero]
    /\ hist = InitHist
    /\ descend_mark = 0 - 1
    /\ \E p1 \in BuiltModels, p2 \in BuiltModels :
          traj = <<NewTrajectory(p1), NewTrajectory(p2)>>
    /\ solo = <<NewSolo, NewSolo>>

\* the solver evaluates the model of trajectory i at time t, which never runs
\* backwards within a trajectory
Evaluate(i, t, place, alt) ==
    /\ t >= traj[i].t
    /\ LET r == up_down(traj[i].model, descend_mark, t, place, alt)
           a == up_down(traj[i].model, solo[i].mark, t, place, alt)
       IN  /\ descend_mark' = r.mark
           /\ traj' = [traj EXCEPT ![i] = [@ EXCEPT !.t = t, !.out = r.out]]
           /\ solo' = [solo EXCEPT ![i] = a]
    /\ UNCHANGED <<classVars, cached_latest, trueDivision, alarm, fs, heap, pc,
                   frame, result, hist>>

NextSched ==
    \E i \in 1..2, t \in 0..MaxTime, place \in Places, alt \in Altitudes :
        Evaluate(i, t, place, alt)

SpecSched == InitSched /\ [][NextSched]_vars

-----------------------------------------------------------------------------
(* SpecSolo: one model, built once, evaluated at non-decreasing times, at  *)
(* any position and altitude; the marker starts at -1.0.  traj[1] keeps    *)
(* the arguments of the latest evaluation and, of the evaluations that     *)
(* reached the window test (lines 129-134) since the last one found        *)
(* outside the window: entry, the time of the first of them (-1: none),    *)
(* and held, whether one of them returned (0, 0, 0).                       *)

\* the model of the one trajectory: no limit, or a descent of at most 0 or 1
\* seconds
SoloModels == BuiltModels \cup {make_ascent_descent(1, 1, 1, 1, 0)}

NewSoloTrajectory(p) ==
    [model |-> p, t |-> 0, out |-> Hold, place |-> "mid", alt |-> 0,
     evaluated |-> FALSE, entry |-> 0 - 1, held |-> FALSE]

InitSolo ==
    /\ InitCommon
    /\ trueDivision = TRUE
    /\ fs = [q \in {} |-> BigZero]
    /\ hist = InitHist
    /\ descend_mark = 0 - 1
    /\ \E p \in SoloModels : traj = <<NewSoloTrajectory(p)>>
    /\ solo = <<>>

SoloEvaluate(t, place, alt) ==
    LET tr     == traj[1]
        r      == up_down(tr.model, descend_mark, t, place, alt)
        tested == ~SunTable[place].riseRaises
        inside == should_descend(t, DescentT(tr.model, place), SunTable[place].sunrise)
    IN  /\ t >= tr.t
        /\ descend_mark' = r.mark
        /\ traj' = <<[tr EXCEPT
                        !.t = t, !.out = r.out, !.place = place, !.alt = alt,
                        !.evaluated = TRUE,
                        !.entry = IF ~tested THEN @
                                  ELSE IF ~inside THEN 0 - 1
                                  ELSE IF @ < 0 THEN t ELSE @,
                        !.held = IF ~tested THEN @
                                 ELSE inside /\ (@ \/ r.out = Hold)]>>
        /\ UNCHANGED <<classVars, cached_latest, trueDivision, alarm, fs, heap, pc,
                       frame, result, hist, solo>>

NextSolo ==
    \E t \in 0..MaxTime, place \in Places, alt \in Altitudes : SoloEvaluate(t, place, alt)

SpecSolo == InitSolo /\ [][NextSolo]_vars

-----------------------------------------------------------------------------
(* Properties of the up/down model.                                        *)

\* C1 (as claimed): under any interleaving of the evaluations of the two
\* trajectories, the vector every evaluation returns is the vector the
\* trajectory would get if it were evaluated alone.
C1_MarkerIsolation ==
    \A i \in 1..Len(traj) : traj[i].out = solo[i].out

-----------------------------------------------------------------------------
(* Properties of close (checked under SpecClose).                          *)

\* C11: a close(d) raises nothing and leaves d without a mapping; a close of
\* a d that has no mapping changes nothing; and a close of d changes no other
\* Dataset (those mapping the same file included), nor any file.
C11_CloseIdempotentLocal ==
    [][\A i \in 1..Len(heap) :
          (result'.op = "close" /\ result'.obj = i) =>
             /\ result'.raised = None
             /\ ~heap'[i].array.present
             /\ heap' = [heap EXCEPT ![i] = [@ EXCEPT !.array = NoArray]]
             /\ ~heap[i].array.present => heap' = heap
             /\ \A j \in (1..Len(heap)) \ {i} : heap'[j] = heap[j]
             /\ fs' = fs]_vars

\* Dataset 1 was closed a second time while Dataset 2 maps the same file
C11_Witness ==
    /\ result.op = "close"
    /\ result.obj = 1
    /\ result.raised = None
    /\ result.actual = NoBytes
    /\ Len(heap) = 2
    /\ heap[2].fn = heap[1].fn
    /\ heap[2].array.present
    /\ heap[1].fn \in DOMAIN fs

\* the latest evaluation of the one trajectory of SpecSolo
Tr == traj[1]
TrSun == SunTable[Tr.place]

\* C13: with descent_duration = -1, at a position and date where the descent
\* trigger (sunset - descent_before_sunset) precedes the sunrise, every
\* evaluation at a time strictly between the trigger and the sunrise returns
\* the descend vector, whatever was evaluated before it.
C13_UnboundedDescentFillsWindow ==
    (/\ Tr.evaluated
     /\ Tr.model.descent_duration = 0 - 1
     /\ ~TrSun.riseRaises /\ ~TrSun.setRaises
     /\ TrSun.sunset - Tr.model.descent_before_sunset < TrSun.sunrise
     /\ TrSun.sunset - Tr.model.descent_before_sunset < Tr.t
     /\ Tr.t < TrSun.sunrise)
    => Tr.out = Descend(Tr.model)

\* the second evaluation inside the window (1, 4) of "east" descends
C13_Witness ==
    /\ Tr.evaluated
    /\ Tr.model.descent_duration = 0 - 1
    /\ Tr.place = "east"
    /\ Tr.t = 3
    /\ Tr.entry = 2
    /\ Tr.out = Descend(Tr.model)

\* C18 (as claimed): after every evaluation that did not find the time inside
\* the descent window - ascending, holding outside the window, or holding for
\* want of a sunrise - the marker is unset.
C18_MarkerUnsetWhenNotDescending ==
    (/\ Tr.evaluated
     /\ \/ TrSun.riseRaises
        \/ ~should_descend(Tr.t, DescentT(Tr.model, Tr.place), TrSun.sunrise))
    => descend_mark < 0

\* C19: with descent_duration >= 0, after every evaluation that found the time
\* inside the descent window the marker is the time of the first evaluation of
\* that window; the evaluation returned descend if its time is at most
\* marker + descent_duration and hold otherwise; and no evaluation returns
\* descend after one of the same window returned hold.
C19_BoundedDescent ==
    (/\ Tr.evaluated
     /\ Tr.model.descent_duration >= 0
     /\ ~TrSun.riseRaises
     /\ should_descend(Tr.t, DescentT(Tr.model, Tr.place), TrSun.sunrise))
    => /\ descend_mark = Tr.entry
       /\ descend_mark <= Tr.t
       /\ Tr.out = IF Tr.t <= descend_mark + Tr.model.descent_duration
                   THEN Descend(Tr.model) ELSE Hold
       /\ ~(Tr.held /\ Tr.out = Descend(Tr.model))

\* a window entered at 4 with descent_duration = 0: descent at 4, hold at 5
C19_Witness ==
    /\ Tr.evaluated
    /\ Tr.model.descent_duration >= 0
    /\ Tr.place = "mid"
    /\ Tr.entry = 4
    /\ descend_mark = 4
    /\ Tr.t = 5
    /\ Tr.held
    /\ Tr.out = Hold

\* C20: an evaluation where get_sunrise_time raises returns (0, 0, 0); one
\* where only get_sunset_time raises returns ascend below float_alt and
\* (0, 0, 0) otherwise, never descend.
C20_NoSunriseNoSunset ==
    Tr.evaluated =>
        /\ TrSun.riseRaises => Tr.out = Hold
        /\ (~TrSun.riseRaises /\ TrSun.setRaises) =>
              Tr.out = IF Tr.alt < Tr.model.float_alt THEN Ascend(Tr.model) ELSE Hold

\* before the sunrise of a day without sunset, below float_alt: ascend
C20_Witness ==
    /\ Tr.evaluated
    /\ Tr.place = "noSet"
    /\ Tr.t = 2
    /\ Tr.alt < Tr.model.float_alt
    /\ Tr.out = Ascend(Tr.model)
    /\ descend_mark < 0

-----------------------------------------------------------------------------
(* SpecScan: Dataset.listdir (dataset.py 186-217) applied to directories   *)
(* holding any of the names of ScanPool, with any of the filters of        *)
(* ScanFilters.                                                            *)

\* names in directory "A": two datasets, a grib mirror, a short name, a name
\* of 11 characters that is no time, the 30th of February, and nine digits
ScanPool ==
    {filename(T0100, "A", <<>>),
     filename(T0103, "A", <<>>),
     filename(T0106, "A", SUFFIX_GRIBMIRROR),
     <<"A", <<"l", "a", "t", "e", "s", "t">>>>,
     <<"A", <<"2", "0", "1", "4", "-", "0", "2", "-", "0", "1", "x">>>>,
     <<"A", <<"2", "0", "1", "4", "0", "2", "3", "0", "0", "0">>>>,
     <<"A", <<"2", "0", "1", "4", "0", "2", "0", "1", "0">>>>}

\* only_suffices: None, an empty collection, ('', ), ('.gribmirror', ), both
ScanFilters ==
    {[given |-> FALSE, members |-> {}],
     [given |-> TRUE, members |-> {}],
     [given |-> TRUE, members |-> {<<>>}],
     [given |-> TRUE, members |-> {SUFFIX_GRIBMIRROR}],
     [given |-> TRUE, members |-> {<<>>, SUFFIX_GRIBMIRROR}]}

InitScan ==
    /\ InitCommon
    /\ trueDivision = TRUE
    /\ InitSchedIdle
    /\ hist = InitHist
    /\ \E names \in SUBSET ScanPool : fs = [q \in names |-> Big(1)]

\* list(Dataset.listdir(directory, only_suffices))
Scan(directory, only_suffices) ==
    /\ result' = [op |-> "scan", raised |-> None, directory |-> directory,
                  only_suffices |-> only_suffices,
                  records |-> listdir(directory, only_suffices)]
    /\ UNCHANGED <<classVars, cached_latest, trueDivision, alarm, fs, heap, pc,
                   frame, hist, schedVars>>

NextScan == \E only_suffices \in ScanFilters : Scan("A", only_suffices)

SpecScan == InitScan /\ [][NextScan]_vars

\* C14 (as claimed): a scan raises nothing and yields exactly one record for
\* each entry of at least 10 characters whose first 10 parse as a time and,
\* when a filter is given (not None), whose remaining characters are a
\* member of the filter; the record's suffix is those remaining characters.
C14_ScanYieldsParseableFiltered ==
    result.op = "scan" =>
        LET names == {f \in os_listdir(result.directory) :
                        /\ Len(f) >= StampLen
                        /\ strptime(SubSeq(f, 1, StampLen)) # NoTime
                        /\ result.only_suffices.given =>
                              SubSeq(f, StampLen + 1, Len(f))
                                  \in result.only_suffices.members}
        IN  /\ result.raised = None
            /\ {r.filename : r \in result.records} = names
            /\ Cardinality(result.records) = Cardinality(names)
            /\ \A r \in result.records :
                  /\ r.ds_time = strptime(SubSeq(r.filename, 1, StampLen))
                  /\ r.suffix = SubSeq(r.filename, StampLen + 1, Len(r.filename))
                  /\ r.path = <<result.directory, r.filename>>

-----------------------------------------------------------------------------
(* SpecFlight: a float_profile (models.py 272-287) run by the integrator,  *)
(* solver.solve, as test_float.py (60-61) runs it.  The models and the     *)
(* terminators are those of models.py; the wind comes from the dataset     *)
(* and is any of Winds at each step.  The integrator itself is modelled    *)
(* from its description: each stage starts with the sample it is handed,   *)
(* steps the state by the stage's model until the stage's terminator       *)
(* holds of the new sample, and hands that sample to the next stage.       *)
(* traj[1] is the run: profile, the stages; stage, the one running         *)
(* (Len(profile) + 1: the run is over); results, per stage started, its    *)
(* index in the profile and its samples <<t, lat, lng, alt>>.              *)

\* (u, v) of the interpolated wind, as degrees per second
Winds == {<<0, 0>>, <<1, 0>>, <<0, 1>>}

\* make_constant_ascent(ascent_rate)
make_constant_ascent(ascent_rate) == [kind |-> "constant_ascent", arg |-> ascent_rate]

\* make_wind_velocity(dataset, warningcounts)
make_wind_velocity == [kind |-> "wind_velocity", arg |-> 0]

\* burst_termination with > for >=
make_burst_termination_Strict(burst_altitude) == [kind |-> "burst_strict", arg |-> burst_altitude]

\* make_burst_termination(burst_altitude)
make_burst_termination(burst_altitude) == [kind |-> "burst", arg |-> burst_altitude]

\* make_time_termination(max_time)
make_time_termination(max_time) == [kind |-> "time", arg |-> max_time]

\* the model functions: constant_ascent (47-48), wind_velocity (168-176)
Model(mdl, wind, sample) ==
    IF mdl.kind = "constant_ascent" THEN <<0, 0, mdl.arg>>
    ELSE IF sample[4] > 0 THEN <<wind[1], wind[2], 0>>
    ELSE <<0, 0, 0>>

\* make_linear_model(models): the sum of the models' vectors
RECURSIVE linear_model(_, _, _)
linear_model(models, wind, sample) ==
    IF models = <<>> THEN <<0, 0, 0>>
    ELSE LET d    == Model(Head(models), wind, sample)
             rest == linear_model(Tail(models), wind, sample)
         IN  <<rest[1] + d[1], rest[2] + d[2], rest[3] + d[3]>>

\* the terminators: burst_termination (187-189), time_termination (215-217);
\* "burst_strict" is the variant of make_burst_termination_Strict
Terminator(term, sample) ==
    IF term.kind = "burst" THEN sample[4] >= term.arg
    ELSE IF term.kind = "burst_strict" THEN sample[4] > term.arg
    ELSE sample[1] > term.arg

\* float_profile(ascent_rate, float_altitude, stop_time, dataset, warningcounts)
float_profile(ascent_rate, float_altitude, stop_time) ==
    <<[model |-> <<make_constant_ascent(ascent_rate), make_wind_velocity>>,
       term  |-> make_burst_termination(float_altitude)],
      [model |-> <<make_wind_velocity>>,
       term  |-> make_time_termination(stop_time)]>>

\* the profiles flown: float altitude 1 or 2, stop time 1, 3 or MaxTime
FlownProfiles == {float_profile(1, a, e) : a \in {1, 2}, e \in {1, 3, MaxTime}}

\* seconds per step of the integrator
StepSecs == 1

\* solver.solve(t0, lat0, lng0, alt0, stages, timeResolution): the start
InitFlight ==
    /\ InitCommon
    /\ trueDivision = TRUE
    /\ fs = [q \in {} |-> BigZero]
    /\ hist = InitHist
    /\ descend_mark = 0 - 1
    /\ solo = <<>>
    /\ \E profile \in FlownProfiles :
          traj = <<[profile |-> profile, stage |-> 1,
                    results |-> <<[stage |-> 1, samples |-> <<<<0, 0, 0, 0>>>>]>>]>>

\* one step of the integrator in the running stage
SolveStep(wind) ==
    LET run  == traj[1]
        k    == run.stage
        cur  == run.results[k].samples[Len(run.results[k].samples)]
        d    == linear_model(run.profile[k].model, wind, cur)
        nxt  == <<cur[1] + StepSecs, cur[2] + d[1] * StepSecs,
                  cur[3] + d[2] * StepSecs, cur[4] + d[3] * StepSecs>>
        done == Terminator(run.profile[k].term, nxt)
        grown == [run.results EXCEPT ![k].samples = Append(@, nxt)]
    IN  /\ k <= Len(run.profile)
        /\ traj' = <<[run EXCEPT
                        !.stage = IF done THEN k + 1 ELSE k,
                        !.results = IF done /\ k < Len(run.profile)
                                    THEN Append(grown, [stage |-> k + 1,
                                                        samples |-> <<nxt>>])
                                    ELSE grown]>>
        /\ UNCHANGED <<classVars, cached_latest, trueDivision, alarm, fs, heap, pc,
                       frame, result, hist, descend_mark, solo>>

NextFlight == \E wind \in Winds : SolveStep(wind)

SpecFlight == InitFlight /\ [][NextFlight]_vars

\* the run of SpecFlight
Run == traj[1]

\* C15: the stages are started in the order of the list, each once; a stage
\* that follows another starts with the last sample of that one; within a
\* stage no sample but the last satisfies the stage's terminator (the float
\* altitude reached, the stop time passed), and the last one of a finished
\* stage does; and the run is over exactly when the last stage is finished.
C15_StageHandOff ==
    LET n       == Len(Run.results)
        float_altitude == Run.profile[1].term.arg
        stop_time      == Run.profile[2].term.arg
        fired(k, sample) == IF k = 1 THEN sample[4] >= float_altitude
                            ELSE sample[1] > stop_time
        last(k) == Run.results[k].samples[Len(Run.results[k].samples)]
    IN  /\ n = IF Run.stage > Len(Run.profile) THEN Len(Run.profile) ELSE Run.stage
        /\ \A k \in 1..n : Run.results[k].stage = k
        /\ \A k \in 1..(n - 1) : Run.results[k + 1].samples[1] = last(k)
        /\ \A k \in 1..n : \A j \in 2..(Len(Run.results[k].samples) - 1) :
              ~fired(k, Run.results[k].samples[j])
        /\ \A k \in 1..n : k < Run.stage =>
              Len(Run.results[k].samples) >= 2 /\ fired(k, last(k))
        /\ \A k \in 1..n : k = Run.stage =>
              Len(Run.results[k].samples) = 1 \/ ~fired(k, last(k))

\* both stages of float_profile(1, 2, 3) have run, with wind, and ended
C15_Witness ==
    /\ Run.stage = 3
    /\ Len(Run.results) = 2
    /\ Len(Run.results[1].samples) = 3
    /\ Len(Run.results[2].samples) = 3
    /\ Run.results[2].samples[1] = Run.results[1].samples[3]
    /\ Run.results[2].samples[3][2] > 0

-----------------------------------------------------------------------------
(* Properties of SpecCreate.                                               *)

\* the bytes an instance covers: the length its mapping was made with, and
\* what self.size reads now
Short(i) ==
    /\ heap[i].array.present
    /\ heap[i].fn \in DOMAIN fs
    /\ BigLess(fs[heap[i].fn], heap[i].array.length)
    /\ BigLess(fs[heap[i].fn], size)

\* C21: the create extends the file to size bytes before it maps it, and no
\* Dataset - the creator, or a reader opening or already mapping the file
\* while the create runs - holds a mapping over a file that is now shorter
\* than the bytes the Dataset covers (shorter than the mapping's length and
\* shorter than size, so under either reading of "its total_bytes").
C21_NoMappingOverShortFile ==
    \A i \in 1..Len(heap) : ~Short(i)

-----------------------------------------------------------------------------
(* Properties of Spec: what open_latest returns after close.               *)

\* C22: every Dataset returned by open_latest has its mapping at the moment
\* it is returned (heap[i].array is there), whatever open_latest and close
\* calls came before - also when a caller that got the same instance from
\* the cache has closed it.
C22_ReturnedDatasetIsMapped ==
    (Returned /\ result.obj # NoObj) => heap[result.obj].array.present

-----------------------------------------------------------------------------
(* SpecSeq: trajectories one after the other in one process.  A trajectory *)
(* is built by make_ascent_descent (through up_down_profile), evaluated at *)
(* times that never run backwards, and left for good when the next one is  *)
(* built; only the trajectory built last is evaluated.                     *)

MaxTrajectories == 2

InitSeq ==
    /\ InitCommon
    /\ trueDivision = TRUE
    /\ fs = [q \in {} |-> BigZero]
    /\ hist = InitHist
    /\ descend_mark = 0 - 1
    /\ \E p \in BuiltModels : traj = <<NewTrajectory(p)>>
    /\ solo = <<NewSolo>>

\* make_ascent_descent(...) for the next trajectory: it returns the closure
\* up_down and assigns nothing else, the module's descend_mark included
Build(p) ==
    /\ Len(traj) < MaxTrajectories
    /\ traj' = Append(traj, NewTrajectory(p))
    /\ solo' = Append(solo, NewSolo)
    /\ UNCHANGED <<classVars, cached_latest, trueDivision, alarm, fs, heap, pc,
                   frame, result, hist, descend_mark>>

NextSeq ==
    \/ \E p \in BuiltModels : Build(p)
    \/ \E t \in 0..MaxTime, place \in Places, alt \in Altitudes :
          Evaluate(Len(traj), t, place, alt)

SpecSeq == InitSeq /\ [][NextSeq]_vars

\* C23: trajectories run one after the other are independent: the vector a
\* trajectory gets from each evaluation is the one it would get with a marker
\* of its own that was unset when its model was built, whatever trajectories
\* were evaluated before it (one that stopped inside its descent window
\* included).
C23_SequentialIndependence ==
    traj[Len(traj)].out = solo[Len(traj)].out

-----------------------------------------------------------------------------
(* Properties of SpecStore: an open that fails.                            *)

\* C24: a Dataset(..., new=False, determineTime=True) that fails on the
\* file's size (ValueError of line 315, or a file of no bytes that mmap
\* refuses) leaves forecast_range, shape, axes, size and cached_latest as
\* they were before the call, and forecast_hours() stays a multiple of 3
\* that is not negative.
C24_FailedOpenChangesNothing ==
    [][(/\ result'.op = "open"
        /\ result'.determineTime
        /\ result'.raised \in {"ValueError", "EmptyMmap"})
       => /\ forecast_range' = forecast_range
          /\ shape' = shape
          /\ axes' = axes
          /\ size' = size
          /\ cached_latest' = cached_latest
          /\ forecast_hours(shape') >= 0
          /\ forecast_hours(shape') % 3 = 0]_vars

=============================================================================
